---- MODULE Spec2Model ----
(***************************************************************************)
(* State-machine model of the fact-checker browser extension:              *)
(*   src/frontend/background.js  context-menu handler, FACT_CHECK message  *)
(*                               listener, checkFact, storeLogEntry        *)
(*   src/frontend/popup.js       popup load, autoCheck, message callback   *)
(*   src/unnamed/part_000        exportLogs                                *)
(* Every await of the source is a separate step, so that the handlers of   *)
(* several requests interleave exactly at the source's suspension points.  *)
(*                                                                         *)
(* The browser runtime is the environment.  A fetch settles with a network *)
(* error or a response of any status and body.  chrome.storage.local.get   *)
(* resolves with what is stored; chrome.storage.local.set resolves or is   *)
(* rejected (the log grows without bound and the area has a quota).        *)
(* sendResponse accepts the plain JSON value it is given.  A handler that  *)
(* ends without answering leaves its port to the runtime, which may close  *)
(* it and so call the popup's callback with no response.                   *)
(***************************************************************************)
EXTENDS Integers, Sequences, FiniteSets, TLC

\* ------------------------------------------------------------------ bounds
MaxReq == 2        \* FACT_CHECK messages the popup may send in one behaviour
MaxLen == 1        \* longest text typed or selected
MaxExports == 1    \* clicks on the export button in one behaviour
MaxFaults == 1     \* storage writes rejected (quota exceeded) in one behaviour
MaxMalformed == 1  \* replies in one behaviour other than a network error or a well-formed 200

Reqs == 1..MaxReq

\* ------------------------------------------------------------ text values
Whitespace == {" "}
Chars == {" ", "a"}

RECURSIVE StringsUpTo(_)
StringsUpTo(n) ==
  IF n = 0 THEN {<<>>}
  ELSE LET shorter == StringsUpTo(n - 1)
       IN shorter \cup {Append(s, c) : s \in {t \in shorter : Len(t) = n - 1}, c \in Chars}

Strings == StringsUpTo(MaxLen)

IsBlank(s) == \A i \in DOMAIN s : s[i] \in Whitespace

RECURSIVE TrimStart(_)
TrimStart(s) ==
  IF s # <<>> /\ Head(s) \in Whitespace THEN TrimStart(Tail(s)) ELSE s

RECURSIVE TrimEnd(_)
TrimEnd(s) ==
  IF s # <<>> /\ s[Len(s)] \in Whitespace THEN TrimEnd(SubSeq(s, 1, Len(s) - 1)) ELSE s

\* (not the source's behaviour) the input is taken as typed
TrimOmitted(s) == s

\* String.prototype.trim as autoCheck uses it
Trim(s) == TrimEnd(TrimStart(s))

\* ------------------------------------------------------- JavaScript values
JsUndefined == "undefined"
JsNull == "null"

JNull == [t |-> "null"]
JObj(props) == [t |-> "object", props |-> props]

\* o.k for a property that may be missing
Prop(o, k) == IF o.t = "object" /\ k \in DOMAIN o.props THEN o.props[k] ELSE JsUndefined

\* -------------------------------------------------------------- JSON text
\* A JSON text is kept as its syntax: an object is the list of its members
\* in the order they are written.
EntryKeys == <<"timestamp", "claim", "verdict", "explanation", "status">>
OptionalKeys == {"verdict", "explanation"}

IsDefined(o, k) == IF k \in OptionalKeys THEN o[k] # JsUndefined ELSE TRUE

\* (not the source's behaviour) the last member of every object is left out
StringifyObjTruncated(o) ==
  LET ks == SelectSeq(EntryKeys, LAMBDA k : k \in DOMAIN o /\ IsDefined(o, k))
  IN [i \in 1..(Len(ks) - 1) |-> [key |-> ks[i], value |-> o[ks[i]]]]

\* JSON.stringify of one object: members in insertion order, undefined dropped
StringifyObj(o) ==
  LET ks == SelectSeq(EntryKeys, LAMBDA k : k \in DOMAIN o /\ IsDefined(o, k))
  IN [i \in 1..Len(ks) |-> [key |-> ks[i], value |-> o[ks[i]]]]

\* JSON.parse of one object
ParseObj(members) ==
  [k \in {members[i].key : i \in DOMAIN members} |->
     members[CHOOSE i \in DOMAIN members : members[i].key = k].value]

\* JSON.stringify(logs, null, 2) and the JSON.parse that reads it back
Stringify(logs) == [i \in 1..Len(logs) |-> StringifyObj(logs[i])]
Parse(doc) == [i \in 1..Len(doc) |-> ParseObj(doc[i])]

\* what chrome.storage.local keeps of an array of entries: a copy in which a
\* property whose value is undefined is gone
DropUndefined(o) == [k \in {x \in DOMAIN o : IsDefined(o, x)} |-> o[k]]
StorageClone(logs) == [i \in 1..Len(logs) |-> DropUndefined(logs[i])]

\* ------------------------------------------------------- endpoint replies
Absent == "absent"

Members(v, e) ==
  (IF v = Absent THEN <<>> ELSE <<[key |-> "verdict", value |-> v]>>) \o
  (IF e = Absent THEN <<>> ELSE <<[key |-> "explanation", value |-> e]>>)

\* the text payload data.output[0].content[0].text: not JSON, the JSON null,
\* or an object: the expected pair, a verdict outside TRUE/FALSE/UNCERTAIN, or
\* no explanation
ObjectTexts ==
  {[syntax |-> "object", members |-> Members(p[1], p[2])] :
     p \in {<<"TRUE", "Because.">>, <<"MAYBE", "Because.">>, <<"TRUE", Absent>>}}

Texts == {[syntax |-> "invalid"], [syntax |-> "null"]} \cup ObjectTexts

\* the body response.json() reads: not JSON, JSON without output[0].content[0].text,
\* or JSON carrying a text payload
Bodies ==
  {[kind |-> "notjson"], [kind |-> "noshape"]} \cup {[kind |-> "text", text |-> t] : t \in Texts}

WellFormedBody ==
  [kind |-> "text", text |-> [syntax |-> "object", members |-> Members("TRUE", "Because.")]]

\* the statuses the endpoint answers with, and the bodies that come with each:
\* an error status brings an error page or, as nothing prevents it, a
\* well-formed reply
HttpStatuses == {200, 500}
BodiesOf(status) == IF status = 200 THEN Bodies ELSE {[kind |-> "notjson"], WellFormedBody}

NoBody == [kind |-> "pending"]
NetworkError == [kind |-> "neterr"]
Response(status, body) == [kind |-> "http", status |-> status, body |-> body]

NoReply == [kind |-> "none"]

Resolved(v) == [ok |-> TRUE, value |-> v]
Rejected(m) == [ok |-> FALSE, message |-> m]

\* JSON.parse(textOutput)
JSONparse(text) ==
  CASE text.syntax = "invalid" -> Rejected("Unexpected token in JSON")
    [] text.syntax = "null" -> Resolved(JNull)
    [] OTHER -> Resolved(JObj(ParseObj(text.members)))

\* checkFact(claim): how the returned promise settles for a given reply
checkFact(reply) ==
  CASE reply.kind = "neterr" -> Rejected("Failed to fetch")
    [] reply.body.kind = "notjson" -> Rejected("Unexpected end of JSON input")
    [] reply.body.kind = "noshape" -> Rejected("Cannot read properties of undefined (reading '0')")
    [] OTHER -> JSONparse(reply.body.text)

\* error?.message || "Unknown error."
ErrorMessage(m) == IF m = JsUndefined \/ m = "" THEN "Unknown error." ELSE m

errorResult(m) ==
  JObj([verdict |-> "Error", explanation |-> "Fact check failed: " \o ErrorMessage(m)])

\* new Date().toISOString() in the k-th storeLogEntry call made for request r:
\* the instant of that call, kept as the value that names the call
Instant(r, k) == <<r, k>>

\* the entry object storeLogEntry builds
LogEntry(ts, claim, result, status) ==
  [timestamp |-> ts, claim |-> claim, verdict |-> Prop(result, "verdict"),
   explanation |-> Prop(result, "explanation"), status |-> status]

\* element.textContent = v
TextContent(v) == IF v = JsUndefined \/ v = JsNull THEN "" ELSE v

\* ------------------------------------------------------------------ state
VARIABLES
  storage,          \* chrome.storage.local: a map from key to stored value
  pendingLastClaim, \* lastClaim writes issued by the context-menu handler, not yet settled
  popupOpen,        \* the popup document exists
  loadPc,           \* popup's storage.get("lastClaim"): "idle", "get", "done"
  claimInput,       \* claimInput.value
  verdictText,      \* verdictText.textContent
  explanationText,  \* explanationText.textContent
  hidden,           \* resultBox has class "hidden"
  nextReq,          \* number of the next FACT_CHECK message
  pc,               \* per request: where its handler stands
  claimOf,          \* per request: request.claim
  reply,            \* per request: what the endpoint answered
  err,              \* per request: message of the error the catch handler received
  calls,            \* per request: storeLogEntry calls made for it
  logs,             \* per request: the local array `logs` of storeLogEntry
  overlapped,       \* per request: another storeLogEntry call ran during its latest one
  channel,          \* responses on their way to the popup's callbacks, in order
  cb,               \* per request: the popup callback: "none", "pending", "ran"
  fetches,          \* number of fetch calls made
  faults,           \* number of storage writes rejected
  appended,         \* per request: status of each entry its handler wrote
  sent,             \* per request: each response sendResponse delivered
  alerts,           \* alert() messages shown
  downloads         \* chrome.downloads.download calls

popupVars == <<popupOpen, loadPc, claimInput, verdictText, explanationText, hidden>>
displayVars == <<verdictText, explanationText, hidden>>
msgVars == <<nextReq, claimOf, cb>>
handlerVars == <<pc, reply, err, calls, logs, overlapped, fetches, faults, appended, sent>>
exportVars == <<alerts, downloads>>
vars == <<storage, pendingLastClaim, popupVars, msgVars, handlerVars, channel, exportVars>>

\* data.k for a key that may not be stored
Stored(k) == k \in DOMAIN storage
\* (not the source's behaviour) the write replaces the whole storage area
StorageSetAlone(k, v) == [x \in {k} |-> v]

\* chrome.storage.local.set({k: v})
StorageSet(k, v) == [x \in DOMAIN storage \cup {k} |-> IF x = k THEN v ELSE storage[x]]

\* data.factLogs || []
PersistedLogs == IF Stored("factLogs") THEN storage["factLogs"] ELSE <<>>

NoFields == [x \in {} |-> JsUndefined]

Init ==
  /\ storage = NoFields
  /\ pendingLastClaim = <<>>
  /\ popupOpen = FALSE
  /\ loadPc = "idle"
  /\ claimInput = <<>>
  /\ verdictText = ""
  /\ explanationText = ""
  /\ hidden = TRUE
  /\ nextReq = 1
  /\ pc = [r \in Reqs |-> "none"]
  /\ claimOf = [r \in Reqs |-> <<>>]
  /\ reply = [r \in Reqs |-> NoReply]
  /\ err = [r \in Reqs |-> JsUndefined]
  /\ calls = [r \in Reqs |-> 0]
  /\ logs = [r \in Reqs |-> <<>>]
  /\ overlapped = [r \in Reqs |-> FALSE]
  /\ channel = <<>>
  /\ cb = [r \in Reqs |-> "none"]
  /\ fetches = 0
  /\ faults = 0
  /\ appended = [r \in Reqs |-> <<>>]
  /\ sent = [r \in Reqs |-> <<>>]
  /\ alerts = <<>>
  /\ downloads = <<>>

\* ------------------------------------------------------------------ popup
\* autoCheck() with claimInput.value = input
autoCheck(input) ==
  LET claim == Trim(input)
  IN IF claim = <<>>
     THEN UNCHANGED <<displayVars, msgVars, pc>>
     ELSE /\ nextReq <= MaxReq
          /\ verdictText' = "Checking..."
          /\ explanationText' = ""
          /\ hidden' = FALSE
          /\ pc' = [pc EXCEPT ![nextReq] = "sent"]
          /\ claimOf' = [claimOf EXCEPT ![nextReq] = claim]
          /\ cb' = [cb EXCEPT ![nextReq] = "pending"]
          /\ nextReq' = nextReq + 1

\* the user opens the popup from the toolbar; the popup script starts its load
OpenPopup ==
  /\ ~popupOpen
  /\ popupOpen' = TRUE
  /\ loadPc' = "get"
  /\ UNCHANGED <<storage, pendingLastClaim, claimInput, displayVars, msgVars, handlerVars,
                 channel, exportVars>>

MenuIds == {"factCheckSelection", "other"}
MenuInfos ==
  {i \in [menuItemId : MenuIds, hasSelection : BOOLEAN, selectionText : Strings] :
     i.hasSelection \/ i.selectionText = <<>>}

\* chrome.contextMenus.onClicked listener
ContextMenuClick(info) ==
  /\ ~popupOpen
  /\ info.menuItemId = "factCheckSelection"
  /\ LET selectedText == IF info.hasSelection /\ info.selectionText # <<>>
                         THEN info.selectionText ELSE <<>>
     IN pendingLastClaim' = Append(pendingLastClaim, selectedText)
  /\ popupOpen' = TRUE
  /\ loadPc' = "get"
  /\ UNCHANGED <<storage, claimInput, displayVars, msgVars, handlerVars, channel, exportVars>>

\* the lastClaim write settles: stored, or rejected (quota), which nobody handles
LastClaimSettle(ok) ==
  /\ pendingLastClaim # <<>>
  /\ ok \/ faults < MaxFaults
  /\ pendingLastClaim' = Tail(pendingLastClaim)
  /\ storage' = IF ok THEN StorageSet("lastClaim", Head(pendingLastClaim)) ELSE storage
  /\ faults' = IF ok THEN faults ELSE faults + 1
  /\ UNCHANGED <<popupVars, msgVars, pc, reply, err, calls, logs, overlapped, fetches, appended, sent,
                 channel, exportVars>>

\* callback of chrome.storage.local.get("lastClaim") in the popup
PopupLoad ==
  /\ popupOpen
  /\ loadPc = "get"
  /\ loadPc' = "done"
  /\ IF Stored("lastClaim") /\ storage["lastClaim"] # <<>>
     THEN /\ claimInput' = storage["lastClaim"]
          /\ autoCheck(claimInput')
     ELSE UNCHANGED <<claimInput, displayVars, msgVars, pc>>
  /\ UNCHANGED <<storage, pendingLastClaim, popupOpen, reply, err, calls, logs, overlapped, fetches,
                 faults, appended, sent, channel, exportVars>>

\* click on checkBtn, the claim field holding the text s the user has typed
ClickCheck(s) ==
  /\ popupOpen
  /\ claimInput' = s
  /\ autoCheck(s)
  /\ UNCHANGED <<storage, pendingLastClaim, popupOpen, loadPc, reply, err, calls, logs, overlapped,
                 fetches, faults, appended, sent, channel, exportVars>>

IsFalsy(response) == response.t \in {"undefined", "null"}

\* (not the source's behaviour) a missing response leaves the display as it is
PopupCallbackStuck ==
  /\ channel # <<>>
  /\ LET m == Head(channel)
     IN /\ cb' = [cb EXCEPT ![m.req] = "ran"]
        /\ IF IsFalsy(m.response)
           THEN UNCHANGED <<verdictText, explanationText>>
           ELSE /\ verdictText' = TextContent(Prop(m.response, "verdict"))
                /\ explanationText' = TextContent(Prop(m.response, "explanation"))
  /\ channel' = Tail(channel)
  /\ UNCHANGED <<storage, pendingLastClaim, popupOpen, loadPc, claimInput, hidden, nextReq,
                 claimOf, handlerVars, exportVars>>

\* the callback given to chrome.runtime.sendMessage
PopupCallback ==
  /\ channel # <<>>
  /\ LET m == Head(channel)
     IN /\ cb' = [cb EXCEPT ![m.req] = "ran"]
        /\ IF IsFalsy(m.response)
           THEN /\ verdictText' = "Error"
                /\ explanationText' = "No response."
           ELSE /\ verdictText' = TextContent(Prop(m.response, "verdict"))
                /\ explanationText' = TextContent(Prop(m.response, "explanation"))
  /\ channel' = Tail(channel)
  /\ UNCHANGED <<storage, pendingLastClaim, popupOpen, loadPc, claimInput, hidden, nextReq,
                 claimOf, handlerVars, exportVars>>

\* ------------------------------------------------------- background worker
SuccessPcs == {"s_get", "s_set", "s_send"}

\* the value the handler of r is storing and answering with
ResultOf(r) == IF pc[r] \in SuccessPcs THEN checkFact(reply[r]).value ELSE errorResult(err[r])
StatusOf(r) == IF pc[r] \in SuccessPcs THEN "success" ELSE "error"

\* a reply that is neither a network error nor a well-formed 200 response
Malformed(rep) ==
  /\ rep.kind = "http"
  /\ rep.status # 200 \/ rep.body \notin {NoBody, WellFormedBody}
MalformedSoFar == Cardinality({q \in Reqs : Malformed(reply[q])})

\* storeLogEntry has been called for the request and has not returned
StorePcs == {"s_get", "s_set", "e_get", "e_set"}

\* a storeLogEntry call for r begins: it overlaps every call in progress
Entering(r) ==
  [q \in Reqs |-> IF q = r THEN \E p \in Reqs \ {r} : pc[p] \in StorePcs
                  ELSE IF pc[q] \in StorePcs THEN TRUE ELSE overlapped[q]]

\* (not the source's behaviour) the then handler answers without logging
ThenUnlogged(r) ==
  /\ pc' = [pc EXCEPT ![r] = "s_send"]
  /\ UNCHANGED <<err, calls, overlapped>>

\* the then handler starts: storeLogEntry(request.claim, result, "success")
\* makes its entry and issues the read of factLogs
Then(r) ==
  /\ calls' = [calls EXCEPT ![r] = @ + 1]
  /\ overlapped' = Entering(r)
  /\ pc' = [pc EXCEPT ![r] = "s_get"]
  /\ err' = err

\* the catch handler starts: errorResult is built, storeLogEntry(request.claim,
\* errorResult, "error") makes its entry and issues the read of factLogs
Catch(r, message) ==
  /\ err' = [err EXCEPT ![r] = message]
  /\ calls' = [calls EXCEPT ![r] = @ + 1]
  /\ overlapped' = Entering(r)
  /\ pc' = [pc EXCEPT ![r] = "e_get"]

\* chrome.runtime.onMessage listener: messages arrive in the order sent; for a
\* FACT_CHECK message checkFact is called, which issues the fetch
ListenerReceive(r) ==
  /\ pc[r] = "sent"
  /\ \A q \in Reqs : q < r => pc[q] # "sent"
  /\ pc' = [pc EXCEPT ![r] = "fetch"]
  /\ fetches' = fetches + 1
  /\ UNCHANGED <<storage, pendingLastClaim, popupVars, msgVars, reply, err, calls, logs, overlapped,
                 faults, appended, sent, channel, exportVars>>

\* await fetch(...) settles: the status line of a response, or a network error
FetchSettle(r, rep) ==
  /\ pc[r] = "fetch"
  /\ Malformed(rep) => MalformedSoFar < MaxMalformed
  /\ reply' = [reply EXCEPT ![r] = rep]
  /\ IF rep.kind = "neterr"
     THEN Catch(r, checkFact(rep).message)
     ELSE /\ pc' = [pc EXCEPT ![r] = "json"]
          /\ UNCHANGED <<err, calls, overlapped>>
  /\ UNCHANGED <<storage, pendingLastClaim, popupVars, msgVars, logs, fetches, faults,
                 appended, sent, channel, exportVars>>

\* await response.json() settles with the body read; the text is extracted and
\* parsed; checkFact settles and the then or the catch handler starts
JsonSettle(r, body) ==
  /\ pc[r] = "json"
  /\ body \in BodiesOf(reply[r].status)
  /\ reply' = [reply EXCEPT ![r].body = body]
  /\ Malformed(reply'[r]) /\ ~Malformed(reply[r]) => MalformedSoFar < MaxMalformed
  /\ LET outcome == checkFact(reply'[r])
     IN IF ~outcome.ok
        THEN Catch(r, outcome.message)
        ELSE IF outcome.value.t = "null"
        THEN Catch(r, "Cannot read properties of null (reading 'verdict')")
        ELSE Then(r)
  /\ UNCHANGED <<storage, pendingLastClaim, popupVars, msgVars, logs, fetches, faults,
                 appended, sent, channel, exportVars>>

\* (not the source's behaviour) the new entry is put in front of the array read
StoreGetUnshift(r) ==
  /\ pc[r] \in {"s_get", "e_get"}
  /\ logs' = [logs EXCEPT ![r] =
                <<LogEntry(Instant(r, calls[r]), claimOf[r], ResultOf(r), StatusOf(r))>>
                  \o PersistedLogs]
  /\ pc' = [pc EXCEPT ![r] = IF pc[r] = "s_get" THEN "s_set" ELSE "e_set"]
  /\ UNCHANGED <<storage, pendingLastClaim, popupVars, msgVars, reply, err, calls, overlapped,
                 fetches, faults, appended, sent, channel, exportVars>>

\* storeLogEntry: await chrome.storage.local.get("factLogs") resolves; the
\* entry is pushed and the write of the whole array is issued
StoreGet(r) ==
  /\ pc[r] \in {"s_get", "e_get"}
  /\ logs' = [logs EXCEPT ![r] =
                Append(PersistedLogs,
                       LogEntry(Instant(r, calls[r]), claimOf[r], ResultOf(r), StatusOf(r)))]
  /\ pc' = [pc EXCEPT ![r] = IF pc[r] = "s_get" THEN "s_set" ELSE "e_set"]
  /\ UNCHANGED <<storage, pendingLastClaim, popupVars, msgVars, reply, err, calls, overlapped, fetches,
                 faults, appended, sent, channel, exportVars>>

\* (not the source's behaviour) the write adds the new entry to the log as it
\* is persisted at the time of the write
StoreSetMerging(r, ok) ==
  /\ pc[r] \in {"s_set", "e_set"}
  /\ ok \/ faults < MaxFaults
  /\ faults' = IF ok THEN faults ELSE faults + 1
  /\ logs' = [logs EXCEPT ![r] = <<>>]
  /\ IF ok
     THEN /\ storage' = StorageSet("factLogs",
                                   StorageClone(Append(PersistedLogs, logs[r][Len(logs[r])])))
          /\ appended' = [appended EXCEPT ![r] = Append(@, StatusOf(r))]
          /\ pc' = [pc EXCEPT ![r] = IF pc[r] = "s_set" THEN "s_send" ELSE "e_send"]
          /\ UNCHANGED <<err, calls, overlapped>>
     ELSE /\ UNCHANGED <<storage, appended>>
          /\ IF pc[r] = "s_set"
             THEN Catch(r, "QUOTA_BYTES quota exceeded")
             ELSE /\ pc' = [pc EXCEPT ![r] = "dead"]
                  /\ UNCHANGED <<err, calls, overlapped>>
  /\ UNCHANGED <<pendingLastClaim, popupVars, msgVars, reply, fetches, sent, channel,
                 exportVars>>

\* storeLogEntry: await chrome.storage.local.set({factLogs: logs}) settles:
\* written, or rejected because the quota is exceeded
StoreSet(r, ok) ==
  /\ pc[r] \in {"s_set", "e_set"}
  /\ ok \/ faults < MaxFaults
  /\ faults' = IF ok THEN faults ELSE faults + 1
  /\ logs' = [logs EXCEPT ![r] = <<>>]
  /\ IF ok
     THEN /\ storage' = StorageSet("factLogs", StorageClone(logs[r]))
          /\ appended' = [appended EXCEPT ![r] = Append(@, StatusOf(r))]
          /\ pc' = [pc EXCEPT ![r] = IF pc[r] = "s_set" THEN "s_send" ELSE "e_send"]
          /\ UNCHANGED <<err, calls, overlapped>>
     ELSE /\ UNCHANGED <<storage, appended>>
          /\ IF pc[r] = "s_set"
             THEN Catch(r, "QUOTA_BYTES quota exceeded")
             ELSE /\ pc' = [pc EXCEPT ![r] = "dead"]
                  /\ UNCHANGED <<err, calls, overlapped>>
  /\ UNCHANGED <<pendingLastClaim, popupVars, msgVars, reply, fetches, sent, channel,
                 exportVars>>

\* sendResponse(result) / sendResponse(errorResult): the response is a plain
\* JSON value, which the runtime accepts; it travels to the popup
SendResponse(r) ==
  /\ pc[r] \in {"s_send", "e_send"}
  /\ channel' = Append(channel, [req |-> r, response |-> ResultOf(r)])
  /\ sent' = [sent EXCEPT ![r] = Append(@, ResultOf(r))]
  /\ pc' = [pc EXCEPT ![r] = "done"]
  /\ UNCHANGED <<storage, pendingLastClaim, popupVars, msgVars, reply, err, calls, logs, overlapped,
                 fetches, faults, appended, exportVars>>

\* the handler ended without answering; the runtime closes the message port
\* and the popup's callback is called with no response
PortClosed(r) ==
  /\ pc[r] = "dead"
  /\ pc' = [pc EXCEPT ![r] = "closed"]
  /\ channel' = Append(channel, [req |-> r, response |-> [t |-> "undefined"]])
  /\ UNCHANGED <<storage, pendingLastClaim, popupVars, msgVars, reply, err, calls, logs, overlapped,
                 fetches, faults, appended, sent, exportVars>>

\* ----------------------------------------------------------------- export
\* (not the source's behaviour) the check for an empty log is missing
exportLogsUnchecked ==
  /\ popupOpen
  /\ Len(alerts) + Len(downloads) < MaxExports
  /\ downloads' = Append(downloads, [filename |-> "fact_check_logs.json",
                                     content |-> Stringify(PersistedLogs)])
  /\ UNCHANGED <<alerts, storage, pendingLastClaim, popupVars, msgVars, handlerVars, channel>>

\* click on exportBtn: exportLogs reads factLogs, then shows the notice or
\* starts the download of the serialised log
exportLogs ==
  /\ popupOpen
  /\ Len(alerts) + Len(downloads) < MaxExports
  /\ IF Len(PersistedLogs) = 0
     THEN /\ alerts' = Append(alerts, "No logs to export.")
          /\ UNCHANGED downloads
     ELSE /\ downloads' = Append(downloads, [filename |-> "fact_check_logs.json",
                                             content |-> Stringify(PersistedLogs)])
          /\ UNCHANGED alerts
  /\ UNCHANGED <<storage, pendingLastClaim, popupVars, msgVars, handlerVars, channel>>

\* ---------------------------------------------------------- specification
Next ==
  \/ OpenPopup
  \/ \E info \in MenuInfos : ContextMenuClick(info)
  \/ \E ok \in BOOLEAN : LastClaimSettle(ok)
  \/ PopupLoad
  \/ \E s \in Strings : ClickCheck(s)
  \/ PopupCallback
  \/ \E r \in Reqs : ListenerReceive(r)
  \/ \E r \in Reqs, rep \in {NetworkError} \cup {Response(st, NoBody) : st \in HttpStatuses} :
       FetchSettle(r, rep)
  \/ \E r \in Reqs, body \in Bodies : JsonSettle(r, body)
  \/ \E r \in Reqs : StoreGet(r)
  \/ \E r \in Reqs, ok \in BOOLEAN : StoreSet(r, ok)
  \/ \E r \in Reqs : SendResponse(r)
  \/ \E r \in Reqs : PortClosed(r)
  \/ exportLogs

Spec == Init /\ [][Next]_vars

\* the scheduling the runtime provides: a delivered message is handled, a
\* settled promise's continuation runs, and every fetch and storage operation
\* settles.  Nothing obliges the runtime to close the port of a handler that
\* ended without answering, and nothing obliges the user to act.
FairSpec ==
  /\ Spec
  /\ WF_vars(PopupLoad)
  /\ WF_vars(PopupCallback)
  /\ WF_vars(\E ok \in BOOLEAN : LastClaimSettle(ok))
  /\ \A r \in Reqs :
       /\ WF_vars(ListenerReceive(r))
       /\ WF_vars(\E rep \in {NetworkError} \cup {Response(st, NoBody) : st \in HttpStatuses} :
                    FetchSettle(r, rep))
       /\ WF_vars(\E body \in Bodies : JsonSettle(r, body))
       /\ WF_vars(StoreGet(r))
       /\ WF_vars(\E ok \in BOOLEAN : StoreSet(r, ok))
       /\ WF_vars(SendResponse(r))

\* ------------------------------------------------------------- vocabulary
\* the handler of r has run to its end
HandlerEnded(r) == pc[r] \in {"done", "dead", "closed"}
\* checkFact(request.claim) has settled for r
CheckFactSettled(r) ==
  reply[r].kind = "neterr" \/ (reply[r].kind = "http" /\ reply[r].body # NoBody)
CheckFactResolved(r) == CheckFactSettled(r) /\ checkFact(reply[r]).ok
CheckFactRejected(r) == CheckFactSettled(r) /\ ~checkFact(reply[r]).ok
\* e.k of a persisted entry
Field(e, k) == IF k \in DOMAIN e THEN e[k] ELSE JsUndefined
\* the request whose handler made the persisted entry e
Owner(e) == e.timestamp[1]
Range(f) == {f[i] : i \in DOMAIN f}
Verdicts == {"TRUE", "FALSE", "UNCERTAIN", "Error"}

\* ------------------------------------------------------------------ claims
\* C1: when the handler of a FACT_CHECK request has ended, it has appended
\* exactly one LogEntry for the request, with status "success" if and only if
\* checkFact resolved and "error" if and only if it rejected.
C1_ExactlyOneEntryMatchingOutcome ==
  \A r \in Reqs :
    HandlerEnded(r) =>
      /\ Len(appended[r]) = 1
      /\ appended[r][1] = "success" <=> CheckFactResolved(r)
      /\ appended[r][1] = "error" <=> CheckFactRejected(r)

\* C2: when checkFact rejected, the handler ends having answered the caller
\* with {verdict: "Error", explanation: "Fact check failed: " + message},
\* having appended an entry with status "error", and with no rejection left
\* unhandled.
C2_RejectionAnsweredAndLogged ==
  \A r \in Reqs :
    (HandlerEnded(r) /\ CheckFactRejected(r)) =>
      /\ sent[r] = <<JObj([verdict |-> "Error",
                           explanation |-> "Fact check failed: " \o checkFact(reply[r]).message])>>
      /\ "error" \in Range(appended[r])
      /\ pc[r] = "done"

\* the reply is one the evaluation has to turn into an error: a status outside
\* 200..299, or a text payload that parses but has no verdict or no explanation
MustBecomeError(r) ==
  /\ reply[r].kind = "http"
  /\ reply[r].body # NoBody
  /\ \/ reply[r].status \notin 200..299
     \/ /\ checkFact(reply[r]).ok
        /\ \/ Prop(checkFact(reply[r]).value, "verdict") = JsUndefined
           \/ Prop(checkFact(reply[r]).value, "explanation") = JsUndefined

\* C3: a reply with a non-2xx status, or whose parsed payload lacks the verdict
\* or the explanation, is never logged with status "success" and never answered
\* with anything but a verdict "Error".
C3_BadReplyNeverSuccess ==
  \A r \in Reqs :
    MustBecomeError(r) =>
      /\ "success" \notin Range(appended[r])
      /\ \A i \in DOMAIN sent[r] : Prop(sent[r][i], "verdict") = "Error"

\* C4: every response delivered and every entry persisted has a verdict among
\* TRUE, FALSE, UNCERTAIN, ERROR (written "Error" by the source) and an
\* explanation that is neither null nor undefined.
C4_VerdictInRange ==
  /\ \A r \in Reqs : \A i \in DOMAIN sent[r] :
       /\ Prop(sent[r][i], "verdict") \in Verdicts
       /\ Prop(sent[r][i], "explanation") \notin {JsUndefined, JsNull}
  /\ \A i \in DOMAIN PersistedLogs :
       /\ Field(PersistedLogs[i], "verdict") \in Verdicts
       /\ Field(PersistedLogs[i], "explanation") \notin {JsUndefined, JsNull}

\* a step in which autoCheck ran: the popup's load of lastClaim completed, or a
\* click found new text in the claim field
AutoCheckStep == (loadPc = "get" /\ loadPc' = "done") \/ claimInput' # claimInput

\* C5: when autoCheck runs on empty or whitespace-only input, after a click or
\* after the popup loaded lastClaim, no FACT_CHECK message is sent, no fetch is
\* made, nothing is written to storage and the displayed verdict stays as it was.
C5_BlankInputIgnored ==
  [][(AutoCheckStep /\ IsBlank(claimInput')) =>
       UNCHANGED <<nextReq, pc, claimOf, cb, fetches, reply, calls, logs, appended, sent,
                   channel, storage, verdictText, explanationText, hidden>>]_vars

\* the popup loaded a whitespace-only lastClaim into the claim field and sent nothing
C5_Witness ==
  /\ loadPc = "done"
  /\ Stored("lastClaim")
  /\ storage["lastClaim"] # <<>>
  /\ IsBlank(storage["lastClaim"])
  /\ claimInput = storage["lastClaim"]
  /\ nextReq = 1
  /\ hidden

\* every handler that was started has run to its end
AllCompleted == \A r \in Reqs : pc[r] = "none" \/ HandlerEnded(r)

\* C6: once all evaluations have completed, the persisted log lists the entries
\* of an earlier request before the entries of a later one.
C6_LogInRequestOrder ==
  AllCompleted =>
    \A i, j \in DOMAIN PersistedLogs :
      Owner(PersistedLogs[i]) < Owner(PersistedLogs[j]) => i < j

\* C7: every evaluation whose FACT_CHECK message was sent eventually has its
\* popup callback run.
C7_CallbackEventuallyRuns == \A r \in Reqs : (cb[r] = "pending") ~> (cb[r] = "ran")

\* a step in which exportLogs ran
ExportStep == alerts' # alerts \/ downloads' # downloads

\* C8: exportLogs on a non-empty persisted log shows no notice and starts
\* exactly one download, whose content parses to the persisted sequence.
C8_ExportRoundTrip ==
  [][(ExportStep /\ Len(PersistedLogs) > 0) =>
       /\ alerts' = alerts
       /\ Len(downloads') = Len(downloads) + 1
       /\ SubSeq(downloads', 1, Len(downloads)) = downloads
       /\ Parse(downloads'[Len(downloads')].content) = PersistedLogs]_vars

\* a log of two entries, one of them without explanation, has been exported
C8_Witness ==
  /\ Len(downloads) = 1
  /\ Len(downloads[1].content) = 2
  /\ \E i \in 1..2 : Len(downloads[1].content[i]) < Len(EntryKeys)

\* C9: exportLogs on an empty or absent persisted log shows the notice
\* "No logs to export.", starts no download and leaves storage as it was.
C9_EmptyExportNotice ==
  [][(ExportStep /\ Len(PersistedLogs) = 0) =>
       /\ alerts' = Append(alerts, "No logs to export.")
       /\ downloads' = downloads
       /\ storage' = storage]_vars

\* the notice was shown while lastClaim was stored and no log was
C9_Witness ==
  /\ alerts = <<"No logs to export.">>
  /\ downloads = <<>>
  /\ Stored("lastClaim")
  /\ ~Stored("factLogs")

\* the text payload of r's reply parsed to a pair {verdict, explanation}
ParsedToPair(r) ==
  /\ CheckFactResolved(r)
  /\ checkFact(reply[r]).value.t = "object"
  /\ DOMAIN checkFact(reply[r]).value.props = {"verdict", "explanation"}

\* C10: when the payload parsed to a pair, the handler ends having answered
\* with exactly that pair and appended one "success" entry; and every persisted
\* entry of a request carries the claim of the request and the verdict and
\* explanation of the response sent for it.
C10_ResponseEqualsPayloadAndLog ==
  \A r \in Reqs :
    /\ (HandlerEnded(r) /\ ParsedToPair(r)) =>
         /\ sent[r] = <<checkFact(reply[r]).value>>
         /\ appended[r] = <<"success">>
    /\ \A i \in DOMAIN PersistedLogs :
         (Owner(PersistedLogs[i]) = r /\ pc[r] = "done") =>
           /\ PersistedLogs[i].claim = claimOf[r]
           /\ PersistedLogs[i].status = "success" => CheckFactResolved(r)
           /\ Field(PersistedLogs[i], "verdict") = Prop(sent[r][1], "verdict")
           /\ Field(PersistedLogs[i], "explanation") = Prop(sent[r][1], "explanation")

\* a step in which the write of r's storeLogEntry is stored
WriteLands(r) == appended'[r] # appended[r]
\* the entries request q's handler made, among those of a sequence
EntriesOf(q, seq) == {i \in DOMAIN seq : Owner(seq[i]) = q}

\* C11: a storeLogEntry write replaces the persisted log by the array the call
\* read plus its own entry, so an entry another request persisted after that
\* read is dropped: two overlapping evaluations can both complete and answer
\* while the log keeps the entry of only one.
C11_LastWriteWins ==
  [][\A r \in Reqs :
       WriteLands(r) =>
         /\ storage'["factLogs"] = StorageClone(logs[r])
         /\ \A q \in Reqs \ {r} :
              (EntriesOf(q, PersistedLogs) # {} /\ EntriesOf(q, logs[r]) = {}) =>
                EntriesOf(q, storage'["factLogs"]) = {}]_vars

\* both storeLogEntry calls read the empty log before either wrote; both
\* evaluations completed and answered; the log holds one entry
C11_Witness ==
  /\ \A r \in Reqs :
       /\ r <= 2 =>
            /\ pc[r] = "done"
            /\ calls[r] = 1
            /\ overlapped[r]
            /\ Len(appended[r]) = 1
            /\ Len(sent[r]) = 1
            /\ cb[r] = "ran"
       /\ r > 2 => pc[r] = "none"
  /\ Len(PersistedLogs) = 1

\* C13: a storeLogEntry call that no other call overlaps writes back the log as
\* persisted (the empty sequence when factLogs is absent) followed by one new
\* entry for the request: earlier entries keep their place and content and the
\* length grows by one.
C13_AppendsWhenAlone ==
  [][\A r \in Reqs :
       (WriteLands(r) /\ ~overlapped[r]) =>
         LET before == IF "factLogs" \in DOMAIN storage THEN storage["factLogs"] ELSE <<>>
             after == storage'["factLogs"]
         IN /\ Len(after) = Len(before) + 1
            /\ SubSeq(after, 1, Len(before)) = before
            /\ Owner(after[Len(after)]) = r
            /\ after[Len(after)].claim = claimOf[r]
            /\ after[Len(after)].status = StatusOf(r)]_vars

\* two calls that did not overlap left two entries, the first written while
\* factLogs was absent
C13_Witness ==
  /\ Len(PersistedLogs) = 2
  /\ \A r \in 1..2 : calls[r] = 1 /\ ~overlapped[r] /\ Len(appended[r]) = 1

\* C12: at most one evaluation started from the popup is in flight, its
\* FACT_CHECK message sent and its callback not yet called.
C12_AtMostOneInFlight == Cardinality({r \in Reqs : cb[r] = "pending"}) <= 1

\* a step in which the popup's callback ran with no response
CallbackWithoutResponse ==
  /\ channel # <<>>
  /\ channel' = Tail(channel)
  /\ channel[1].response.t \in {"undefined", "null"}

\* C14: when the popup's callback is called with no response, the popup shows
\* verdict "Error" and explanation "No response." in the visible result box.
C14_NoResponseShown ==
  [][CallbackWithoutResponse =>
       /\ verdictText' = "Error"
       /\ explanationText' = "No response."
       /\ hidden' = FALSE
       /\ cb'[channel[1].req] = "ran"]_vars

\* the port of a handler that ended without answering was closed and the popup
\* shows the failure
C14_Witness ==
  /\ \E r \in Reqs : pc[r] = "closed" /\ cb[r] = "ran"
  /\ verdictText = "Error"
  /\ explanationText = "No response."
  /\ channel = <<>>

\* C15: each FACT_CHECK request received has caused exactly one fetch, and a
\* handler that has ended has sent exactly one response.
C15_OneCallOneResponse ==
  /\ fetches = Cardinality({r \in Reqs : pc[r] \notin {"none", "sent"}})
  /\ \A r \in Reqs :
       /\ Len(sent[r]) <= 1
       /\ HandlerEnded(r) => Len(sent[r]) = 1

\* what the storage area st holds under key k
Slot(st, k) == IF k \in DOMAIN st THEN <<st[k]>> ELSE <<>>
\* a step of checkFact: the fetch is issued or settles, or the body is read
CheckFactStep == fetches' # fetches \/ reply' # reply

\* C16: factLogs changes only when a storeLogEntry write is stored, lastClaim
\* only when a write of the context-menu handler is stored; neither write
\* touches the other key; checkFact and exportLogs leave storage as it is.
C16_WritersOfPersistedState ==
  [][/\ Slot(storage', "factLogs") # Slot(storage, "factLogs") =>
          \E r \in Reqs : WriteLands(r)
     /\ Slot(storage', "lastClaim") # Slot(storage, "lastClaim") =>
          pendingLastClaim # <<>> /\ pendingLastClaim' = Tail(pendingLastClaim)
     /\ (\E r \in Reqs : WriteLands(r)) =>
          Slot(storage', "lastClaim") = Slot(storage, "lastClaim")
     /\ pendingLastClaim' # pendingLastClaim =>
          Slot(storage', "factLogs") = Slot(storage, "factLogs")
     /\ (CheckFactStep \/ ExportStep) => storage' = storage]_vars

\* a context-menu write and two log writes were stored, and an export
\* has run
C16_Witness ==
  /\ Stored("lastClaim")
  /\ Stored("factLogs")
  /\ Len(PersistedLogs) = 2
  /\ Len(downloads) = 1

\* C17: a response has been sent for a request only if a storeLogEntry write for
\* that request has been stored, with status "error" exactly when the response
\* is the error result.
C17_LoggedBeforeAnswered ==
  \A r \in Reqs :
    (sent[r] # <<>> \/ pc[r] \in {"s_send", "e_send"}) =>
      /\ Len(appended[r]) = 1
      /\ sent[r] # <<>> =>
           (appended[r][1] = "error" <=> Prop(sent[r][1], "verdict") = "Error")

\* one request answered on the success path and one on the error path, both
\* received by the popup
C17_Witness ==
  /\ \A r \in 1..2 : pc[r] = "done" /\ cb[r] = "ran" /\ Len(sent[r]) = 1
  /\ appended[1] = <<"success">>
  /\ appended[2] = <<"error">>

\* every message sent has been answered and its callback has been called
AllSettled == \A r \in Reqs : pc[r] \in {"none", "done"} /\ cb[r] # "pending"

\* C18: once every evaluation has settled, the popup shows the verdict and the
\* explanation of the response to the request submitted last.
C18_LatestClaimShown ==
  (nextReq > 1 /\ AllSettled) =>
    /\ verdictText = TextContent(Prop(sent[nextReq - 1][1], "verdict"))
    /\ explanationText = TextContent(Prop(sent[nextReq - 1][1], "explanation"))

NoSelection == <<"none">>
\* the selection of the context-menu click that opened the popup, as far as
\* its write of lastClaim is pending or stored
OpeningSelection ==
  IF pendingLastClaim # <<>> THEN pendingLastClaim[Len(pendingLastClaim)]
  ELSE IF Stored("lastClaim") THEN storage["lastClaim"]
  ELSE NoSelection

\* C19: when the popup opened by a context-menu click on a selection s with
\* text in it completes its load of lastClaim, it puts s in the claim field
\* and sends a FACT_CHECK message for s.
C19_PopupLoadsClickedSelection ==
  [][(loadPc = "get" /\ loadPc' = "done" /\ OpeningSelection # NoSelection
        /\ ~IsBlank(OpeningSelection)) =>
       /\ claimInput' = OpeningSelection
       /\ nextReq' = nextReq + 1
       /\ claimOf'[nextReq] = Trim(OpeningSelection)]_vars

====
